---- MODULE Spec2Model ----
(***************************************************************************)
(* change-detection: a builder collects path declarations and two optional *)
(* global filters; generate walks every declaration with collect_resources *)
(* and forwards the collected paths to a sink.                             *)
(*                                                                         *)
(* A filesystem path is a non-empty sequence of entry names.  The          *)
(* filesystem is a set of directories and a set of files, fixed during a   *)
(* behaviour; at most one directory fails to be enumerated.  The order in  *)
(* which read_dir yields the entries of a directory is not specified by    *)
(* the platform, and a failing enumeration fails either at once or after   *)
(* its first entry: every walk meets one order and one way of failing.     *)
(*                                                                         *)
(* The fields of every record are written in the order in which the names  *)
(* first occur in the module, the order in which TLC keeps them.           *)
(***************************************************************************)
EXTENDS Naturals, Sequences, FiniteSets

\* ------------------------------------------------------------------ bounds
\* Most directories nested in one another; a path has at most one
\* component more.
MaxDepth == 2
\* Most declarations registered on one builder.
MaxPaths == 2

\* --------------------------------------------------------------- universe
\* Entry names.  Only entries named DirName may be directories, so that the
\* directories of a filesystem form one chain below the root DirName.
Names == {"a", "b"}
DirName == "a"
RECURSIVE PathsOfLen(_)
PathsOfLen(n) ==
    IF n = 1 THEN {<<x>> : x \in Names}
    ELSE {Append(p, x) : p \in PathsOfLen(n - 1), x \in Names}
Paths == UNION {PathsOfLen(n) : n \in 1..(MaxDepth + 1)}
\* The roots a declaration may name.
Roots == {p \in Paths : Len(p) = 1}
\* A predicate is given by the file name it matches.
Matchers == Names
\* The one predicate of the fixture tests: the file name ends with "b".
EndsWithB == {"b"}
None == "none"
\* What a walk meets: the order read_dir yields the entries of a directory
\* in, and where the enumeration of the failing directory fails: in
\* read_dir itself ("open") or when its second entry is fetched ("entry").
Envs == [ord : {<<"a", "b">>, <<"b", "a">>}, at : {"open", "entry"}]

VARIABLES
    builder,   \* ChangeDetectionBuilder: include, exclude, paths
    dirs,      \* the directories of the filesystem
    files,     \* the non-directory entries of the filesystem
    ioError,   \* the directory whose enumeration fails, or NoError
    pc,        \* "building", "generating", "done", "panicked"
    walks,     \* one record per declaration walked by the current generate call
    sink,      \* the paths forwarded to the sink by the current generate call
    first      \* the sink of the first build, once the build is run again

vars == <<builder, dirs, files, ioError, pc, walks, sink, first>>

NoError == <<>>
NotRun == [sink |-> <<>>, ran |-> FALSE]

\* ------------------------------------------------------------- filesystem
RECURSIVE chain(_)
chain(k) == IF k = 0 THEN <<>> ELSE Append(chain(k - 1), DirName)
parent(p) == SubSeq(p, 1, Len(p) - 1)

exists(path) == path \in dirs \cup files
is_dir(path) == path \in dirs

\* std::fs::read_dir and the iteration over it: ok is FALSE when read_dir
\* itself fails; otherwise the entries yielded, and whether the iteration
\* then yields an error instead of ending.
read_dir(path, env) ==
    LET all == SelectSeq(<<Append(path, env.ord[1]), Append(path, env.ord[2])>>,
                         exists)
    IN  IF ioError = path /\ env.at = "open"
        THEN [ok |-> FALSE, entries |-> <<>>, fail |-> FALSE]
        ELSE IF ioError = path /\ env.at = "entry"
        THEN [ok |-> TRUE, entries |-> IF all = <<>> THEN <<>> ELSE <<Head(all)>>, fail |-> TRUE]
        ELSE [ok |-> TRUE, entries |-> all, fail |-> FALSE]

\* ---------------------------------------------------------------- filters
\* PathMatcher::matches of the matchers used by the tests: the file name.
matches(filter, path) == path[Len(path)] = filter

filter_include_exclude(self, path) ==
    /\ (self.include = None \/ matches(self.include, path))
    /\ (self.exclude = None \/ ~matches(self.exclude, path))

\* ----------------------------------------------------------------- walker
\* The value of a walk: ok and result are the io::Result (an Err carries no
\* path); reads lists the directories read_dir was called on and evals the
\* paths the filter was evaluated on, in order.
Ok(result, reads, evals) ==
    [ok |-> TRUE, result |-> result, reads |-> reads, evals |-> evals]
Err(reads, evals) ==
    [ok |-> FALSE, result |-> <<>>, reads |-> reads, evals |-> evals]

RECURSIVE collect_resources(_, _, _)
RECURSIVE for_entry(_, _, _, _, _)

\* for_entry, were the filter applied to the push alone: an excluded
\* directory is still descended into.
for_entry_no_pruning(entries, fail, filter, env, acc) ==
    IF entries = <<>>
    THEN IF fail THEN Err(acc.reads, acc.evals) ELSE acc
    ELSE
        LET path == Head(entries)
            evals == Append(acc.evals, path)
            own == IF filter[path] THEN <<path>> ELSE <<>>
        IN  IF is_dir(path)
            THEN
                LET nested == collect_resources(path, filter, env)
                IN  IF ~nested.ok
                    THEN Err(acc.reads \o nested.reads, evals \o nested.evals)
                    ELSE for_entry(Tail(entries), fail, filter, env,
                                   Ok(acc.result \o nested.result \o own,
                                      acc.reads \o nested.reads,
                                      evals \o nested.evals))
            ELSE for_entry(Tail(entries), fail, filter, env,
                           Ok(acc.result \o own, acc.reads, evals))

\* for_entry, were the loop left at the first entry the filter rejects.
for_entry_break(entries, fail, filter, env, acc) ==
    IF entries = <<>>
    THEN IF fail THEN Err(acc.reads, acc.evals) ELSE acc
    ELSE
        LET path == Head(entries)
            evals == Append(acc.evals, path)
        IN  IF ~filter[path]
            THEN Ok(acc.result, acc.reads, evals)
            ELSE IF is_dir(path)
            THEN
                LET nested == collect_resources(path, filter, env)
                IN  IF ~nested.ok
                    THEN Err(acc.reads \o nested.reads, evals \o nested.evals)
                    ELSE for_entry(Tail(entries), fail, filter, env,
                                   Ok(Append(acc.result \o nested.result, path),
                                      acc.reads \o nested.reads,
                                      evals \o nested.evals))
            ELSE for_entry(Tail(entries), fail, filter, env,
                           Ok(Append(acc.result, path), acc.reads, evals))

\* for_entry, were a directory entered a second time after its walk, as down
\* a link that leads back to it.
for_entry_revisiting(entries, fail, filter, env, acc) ==
    IF entries = <<>>
    THEN IF fail THEN Err(acc.reads, acc.evals) ELSE acc
    ELSE
        LET path == Head(entries)
            evals == Append(acc.evals, path)
        IN  IF ~filter[path]
            THEN for_entry(Tail(entries), fail, filter, env,
                           Ok(acc.result, acc.reads, evals))
            ELSE IF is_dir(path)
            THEN
                LET nested == collect_resources(path, filter, env)
                IN  IF ~nested.ok
                    THEN Err(acc.reads \o nested.reads, evals \o nested.evals)
                    ELSE for_entry(Tail(entries), fail, filter, env,
                                   Ok(Append(acc.result \o nested.result \o nested.result, path),
                                      acc.reads \o nested.reads \o nested.reads,
                                      evals \o nested.evals \o nested.evals))
            ELSE for_entry(Tail(entries), fail, filter, env,
                           Ok(Append(acc.result, path), acc.reads, evals))

\* for_entry, were a directory that passes the filter forwarded without being
\* descended into.
for_entry_shallow(entries, fail, filter, env, acc) ==
    IF entries = <<>>
    THEN IF fail THEN Err(acc.reads, acc.evals) ELSE acc
    ELSE
        LET path == Head(entries)
            evals == Append(acc.evals, path)
        IN  IF ~filter[path]
            THEN for_entry(Tail(entries), fail, filter, env,
                           Ok(acc.result, acc.reads, evals))
            ELSE for_entry(Tail(entries), fail, filter, env,
                           Ok(Append(acc.result, path), acc.reads, evals))

\* The loop over the entries of a directory, from the entries still to come
\* and the walk so far.
for_entry(entries, fail, filter, env, acc) ==
    IF entries = <<>>
    THEN IF fail THEN Err(acc.reads, acc.evals) ELSE acc
    ELSE
        LET path == Head(entries)
            evals == Append(acc.evals, path)
        IN  IF ~filter[path]
            THEN for_entry(Tail(entries), fail, filter, env,
                           Ok(acc.result, acc.reads, evals))
            ELSE IF is_dir(path)
            THEN
                LET nested == collect_resources(path, filter, env)
                IN  IF ~nested.ok
                    THEN Err(acc.reads \o nested.reads, evals \o nested.evals)
                    ELSE for_entry(Tail(entries), fail, filter, env,
                                   Ok(Append(acc.result \o nested.result, path),
                                      acc.reads \o nested.reads,
                                      evals \o nested.evals))
            ELSE for_entry(Tail(entries), fail, filter, env,
                           Ok(Append(acc.result, path), acc.reads, evals))

\* collect_resources, were the root pushed only when the filter accepts it.
collect_resources_filtering_root(path, filter, env) ==
    IF ~exists(path)
    THEN Ok(<<>>, <<>>, <<>>)
    ELSE IF ~is_dir(path)
    THEN Ok(IF filter[path] THEN <<path>> ELSE <<>>, <<>>, <<path>>)
    ELSE
        LET rd == read_dir(path, env)
            own == IF filter[path] THEN <<path>> ELSE <<>>
        IN  IF ~rd.ok
            THEN Err(<<path>>, <<path>>)
            ELSE for_entry(rd.entries, rd.fail, filter, env,
                           Ok(own, <<path>>, <<path>>))

\* collect_resources without the check that the path exists.
collect_resources_no_exists_check(path, filter, env) ==
    IF ~is_dir(path)
    THEN Ok(<<path>>, <<>>, <<>>)
    ELSE
        LET rd == read_dir(path, env)
        IN  IF ~rd.ok
            THEN Err(<<path>>, <<>>)
            ELSE for_entry(rd.entries, rd.fail, filter, env,
                           Ok(<<path>>, <<path>>, <<>>))

\* collect_resources without the check that the path is a directory:
\* read_dir fails on a file.
collect_resources_no_is_dir_check(path, filter, env) ==
    IF ~exists(path)
    THEN Ok(<<>>, <<>>, <<>>)
    ELSE
        LET rd == read_dir(path, env)
        IN  IF ~is_dir(path) \/ ~rd.ok
            THEN Err(<<path>>, <<>>)
            ELSE for_entry(rd.entries, rd.fail, filter, env,
                           Ok(<<path>>, <<path>>, <<>>))

\* collect_resources, were the root pushed after the loop over its entries.
collect_resources_root_last(path, filter, env) ==
    IF ~exists(path)
    THEN Ok(<<>>, <<>>, <<>>)
    ELSE IF ~is_dir(path)
    THEN Ok(<<path>>, <<>>, <<>>)
    ELSE
        LET rd == read_dir(path, env)
        IN  IF ~rd.ok
            THEN Err(<<path>>, <<>>)
            ELSE
                LET r == for_entry(rd.entries, rd.fail, filter, env,
                                   Ok(<<>>, <<path>>, <<>>))
                IN  IF r.ok THEN Ok(Append(r.result, path), r.reads, r.evals)
                    ELSE r

collect_resources(path, filter, env) ==
    IF ~exists(path)
    THEN Ok(<<>>, <<>>, <<>>)
    ELSE IF ~is_dir(path)
    THEN Ok(<<path>>, <<>>, <<>>)
    ELSE
        LET rd == read_dir(path, env)
        IN  IF ~rd.ok
            THEN Err(<<path>>, <<>>)
            ELSE for_entry(rd.entries, rd.fail, filter, env,
                           Ok(<<path>>, <<path>>, <<>>))

\* ------------------------------------------------------------ declaration
\* ChangeDetectionPath: the variant, the root, and the local filters the
\* variant carries (None where it carries none).
ChangeDetectionPath ==
    [path : Roots, include : {None}, exclude : {None}, kind : {"Path"}]
    \cup [path : Roots, include : Matchers, exclude : {None}, kind : {"PathInclude"}]
    \cup [path : Roots, include : {None}, exclude : Matchers, kind : {"PathExclude"}]
    \cup [path : Roots, include : Matchers, exclude : Matchers,
          kind : {"PathIncludeExclude"}]

\* collect_filter, were the exclude of PathIncludeExclude left out.
collect_filter_without_exclude(self, b) ==
    LET filter_fn == [p \in Paths |-> filter_include_exclude(b, p)]
    IN  CASE self.kind = "Path" -> filter_fn
          [] self.kind = "PathInclude" ->
                [p \in Paths |-> filter_fn[p] /\ matches(self.include, p)]
          [] self.kind = "PathExclude" ->
                [p \in Paths |-> filter_fn[p] /\ ~matches(self.exclude, p)]
          [] self.kind = "PathIncludeExclude" ->
                [p \in Paths |-> filter_fn[p] /\ matches(self.include, p)]

\* The filter ChangeDetectionPath::collect hands to collect_resources.
collect_filter(self, b) ==
    LET filter_fn == [p \in Paths |-> filter_include_exclude(b, p)]
    IN  CASE self.kind = "Path" -> filter_fn
          [] self.kind = "PathInclude" ->
                [p \in Paths |-> filter_fn[p] /\ matches(self.include, p)]
          [] self.kind = "PathExclude" ->
                [p \in Paths |-> filter_fn[p] /\ ~matches(self.exclude, p)]
          [] self.kind = "PathIncludeExclude" ->
                [p \in Paths |-> filter_fn[p] /\ matches(self.include, p)
                                              /\ ~matches(self.exclude, p)]

collect(self, b, env) ==
    collect_resources(self.path, collect_filter(self, b), env)

\* ------------------------------------------------------------------- init
\* The filesystems: a chain of n directories and any files beside them; the
\* enumeration of at most one directory fails.
Init ==
    /\ builder = [include |-> None, exclude |-> None, paths |-> <<>>]
    /\ \E n \in 0..MaxDepth :
        /\ dirs = {chain(k) : k \in 1..n}
        /\ files \in SUBSET {p \in Paths \ {chain(k) : k \in 1..n} :
                                Len(p) = 1 \/ parent(p) \in {chain(k) : k \in 1..n}}
        /\ ioError \in {NoError} \cup {chain(k) : k \in 1..n}
    /\ pc = "building"
    /\ walks = <<>>
    /\ sink = <<>>
    /\ first = NotRun

\* ---------------------------------------------------------------- builder
\* ChangeDetection::include / ChangeDetection::filter: the global include
\* is set on the default builder only.
include(filter) ==
    /\ pc = "building"
    /\ builder.paths = <<>> /\ builder.include = None /\ builder.exclude = None
    /\ builder' = [builder EXCEPT !.include = filter]
    /\ UNCHANGED <<dirs, files, ioError, pc, walks, sink, first>>

\* ChangeDetection::exclude / ChangeDetection::filter: the global exclude
\* is set before any path is registered.
exclude(filter) ==
    /\ pc = "building"
    /\ builder.paths = <<>> /\ builder.exclude = None
    /\ builder' = [builder EXCEPT !.exclude = filter]
    /\ UNCHANGED <<dirs, files, ioError, pc, walks, sink, first>>

\* push, were the declaration put before those already registered.
push_front(decl) ==
    /\ pc = "building"
    /\ Len(builder.paths) < MaxPaths
    /\ builder' = [builder EXCEPT !.paths = <<decl>> \o @]
    /\ UNCHANGED <<dirs, files, ioError, pc, walks, sink, first>>

push(decl) ==
    /\ pc = "building"
    /\ Len(builder.paths) < MaxPaths
    /\ builder' = [builder EXCEPT !.paths = Append(@, decl)]
    /\ UNCHANGED <<dirs, files, ioError, pc, walks, sink, first>>

path(p) ==
    push([path |-> p, include |-> None, exclude |-> None, kind |-> "Path"])

path_include(p, filter) ==
    push([path |-> p, include |-> filter, exclude |-> None, kind |-> "PathInclude"])

path_exclude(p, filter) ==
    push([path |-> p, include |-> None, exclude |-> filter, kind |-> "PathExclude"])

path_filter(p, inc, exc) ==
    push([path |-> p, include |-> inc, exclude |-> exc,
          kind |-> "PathIncludeExclude"])

\* --------------------------------------------------------------- generate
\* generate_extended is entered: the builder is consumed, the loop over its
\* declarations starts.
generate_extended ==
    /\ pc = "building"
    /\ pc' = IF builder.paths = <<>> THEN "done" ELSE "generating"
    /\ UNCHANGED <<builder, dirs, files, ioError, walks, sink, first>>

\* What ChangeDetectionPath::generate makes of a walk: the paths it hands to
\* the printer, and whether it returns (it panics on an Err).
\* forwarded, were a path the sink already received not forwarded again.
forwarded_once(w) ==
    IF w.ok
    THEN SelectSeq(w.result, LAMBDA p : \A k \in 1..Len(sink) : sink[k] # p)
    ELSE <<>>
forwarded(w) == IF w.ok THEN w.result ELSE <<>>
\* returns, were the error of a walk dropped instead of unwrapped.
returns_swallowing(w) == TRUE
returns(w) == w.ok

\* One iteration of the loop of generate_extended: ChangeDetectionPath::generate
\* of the next declaration.
generate ==
    /\ pc = "generating"
    /\ LET i == Len(walks) + 1
       IN  \E env \in Envs :
            \* where no enumeration fails, the way of failing is no choice
            /\ ioError = NoError => env.at = "open"
            /\ LET w == collect(builder.paths[i], builder, env)
               IN  /\ walks' = Append(walks, w)
                   /\ sink' = sink \o forwarded(w)
                   /\ pc' = IF ~returns(w) THEN "panicked"
                            ELSE IF i = Len(builder.paths) THEN "done"
                            ELSE "generating"
    /\ UNCHANGED <<builder, dirs, files, ioError, first>>

\* The build harness runs the same build again over the unchanged tree.
rerun ==
    /\ pc = "done"
    /\ first = NotRun
    /\ first' = [sink |-> sink, ran |-> TRUE]
    /\ sink' = <<>>
    /\ walks' = <<>>
    /\ pc' = IF builder.paths = <<>> THEN "done" ELSE "generating"
    /\ UNCHANGED <<builder, dirs, files, ioError>>

\* Builders of up to MaxPaths declarations, each a bare path or a path with
\* one local filter, filtered by the fixture predicate.
Next ==
    \/ \E f \in EndsWithB : include(f)
    \/ \E f \in EndsWithB : exclude(f)
    \/ \E p \in Roots : path(p)
    \/ \E p \in Roots, f \in EndsWithB : path_include(p, f)
    \/ \E p \in Roots, f \in EndsWithB : path_exclude(p, f)
    \/ generate_extended
    \/ generate

Spec == Init /\ [][Next]_vars

\* Builders of up to MaxPaths bare declarations, under no filter, where a
\* walk visits everything below its root, or under a global include, where
\* it is pruned.
NextFair ==
    \/ \E f \in EndsWithB : include(f)
    \/ \E p \in Roots : path(p)
    \/ generate_extended
    \/ generate

\* A call of generate that has begun goes on: the loop of generate_extended
\* is synchronous and is not cancelled, so that its next iteration is taken
\* as long as there is one.
SpecFair == Init /\ [][NextFair]_vars /\ WF_vars(generate)

\* Builders of up to MaxPaths declarations of any of the four variants,
\* under any global filters of the fixture predicate.
NextBuild ==
    \/ \E f \in EndsWithB : include(f)
    \/ \E f \in EndsWithB : exclude(f)
    \/ \E p \in Roots : path(p)
    \/ \E p \in Roots, f \in EndsWithB : path_include(p, f)
    \/ \E p \in Roots, f \in EndsWithB : path_exclude(p, f)
    \/ \E p \in Roots, i \in EndsWithB, e \in EndsWithB : path_filter(p, i, e)
    \/ generate_extended
    \/ generate

SpecBuild == Init /\ [][NextBuild]_vars

\* Builders of one declaration of any variant, with every combination of the
\* predicates, built twice by the harness.
NextOne ==
    \/ \E f \in Matchers : include(f)
    \/ \E f \in Matchers : exclude(f)
    \/ \E p \in Roots : builder.paths = <<>> /\ path(p)
    \/ \E p \in Roots, f \in Matchers : builder.paths = <<>> /\ path_include(p, f)
    \/ \E p \in Roots, f \in Matchers : builder.paths = <<>> /\ path_exclude(p, f)
    \/ \E p \in Roots, i \in Matchers, e \in Matchers :
            builder.paths = <<>> /\ path_filter(p, i, e)
    \/ generate_extended
    \/ generate
    \/ rerun

SpecOne == Init /\ [][NextOne]_vars

\* ================================================================= claims
Range(s) == {s[i] : i \in 1..Len(s)}
Count(s, x) == Cardinality({i \in 1..Len(s) : s[i] = x})
\* q lies strictly below p.
Below(q, p) == Len(q) > Len(p) /\ SubSeq(q, 1, Len(p)) = p
Children(d) == {c \in Paths : Len(c) = Len(d) + 1 /\ Below(c, d) /\ exists(c)}
Walked == 1..Len(walks)
root(i) == builder.paths[i].path
\* The four clauses of the effective filter, written out.
Passes(i, p) ==
    /\ (builder.include = None \/ p[Len(p)] = builder.include)
    /\ (builder.exclude = None \/ p[Len(p)] # builder.exclude)
    /\ (builder.paths[i].include = None \/ p[Len(p)] = builder.paths[i].include)
    /\ (builder.paths[i].exclude = None \/ p[Len(p)] # builder.paths[i].exclude)

\* C1: a declaration whose root exists and whose walk returns forwards the
\* root to the sink, whatever the global and local filters say of the root.
C1_RootAlwaysForwarded ==
    \A i \in Walked :
        (Len(builder.paths) = 1 /\ exists(root(i)) /\ walks[i].ok)
            => root(i) \in Range(sink)

\* A directory root that the global include rejects and the local exclude
\* matches has been walked and is in the sink.
C1_Witness ==
    /\ pc = "done" /\ Len(walks) = 1
    /\ is_dir(root(1))
    /\ builder.include # None /\ root(1)[1] # builder.include
    /\ builder.paths[1].exclude # None /\ root(1)[1] = builder.paths[1].exclude
    /\ root(1) \in Range(sink)

\* C2: the walk of a declaration whose root does not exist returns no path,
\* reads nothing and raises no error, so that generation goes on with the
\* next declaration; while only such declarations were walked the sink is
\* empty.
C2_AbsentRootSkipped ==
    /\ \A i \in Walked :
        ~exists(root(i)) =>
            /\ walks[i] = Ok(<<>>, <<>>, <<>>)
            /\ i = Len(walks) => pc = (IF i < Len(builder.paths)
                                       THEN "generating" ELSE "done")
    /\ (\A i \in Walked : ~exists(root(i))) => sink = <<>>

\* After a declaration with an absent root, a second declaration was walked
\* and its paths forwarded.
C2_Witness ==
    /\ pc = "done" /\ Len(walks) = 2
    /\ ~exists(root(1)) /\ is_dir(root(2))
    /\ Len(sink) > 1

\* C3: a child of an enumerated directory that fails the effective filter is
\* pruned: neither it nor anything below it is forwarded, nothing below it
\* is read or put to the filter.
C3_ExclusionPrunes ==
    \A i \in Walked :
        Len(builder.paths) = 1 =>
            \A d \in Range(walks[i].reads) : \A c \in Children(d) :
                ~collect_filter(builder.paths[i], builder)[c] =>
                    /\ \A q \in Range(sink) \cup Range(walks[i].reads) :
                            q # c /\ ~Below(q, c)
                    /\ \A q \in Range(walks[i].evals) : ~Below(q, c)

\* A directory with entries of its own was rejected by the filter of a walk
\* that returned.
C3_Witness ==
    /\ pc = "done" /\ Len(walks) = 1 /\ walks[1].ok
    /\ \E c \in Range(walks[1].evals) :
        /\ is_dir(c) /\ Children(c) # {}
        /\ ~collect_filter(builder.paths[1], builder)[c]

\* C4: in a walk that returns, the entries discovered are the entries of the
\* directories read; such an entry is forwarded exactly when it passes the
\* four clauses (an absent filter passes), and read exactly when it passes
\* them and is a directory.
C4_FilterIsConjunction ==
    \A i \in Walked :
        (Len(builder.paths) = 1 /\ walks[i].ok) =>
            /\ Range(walks[i].evals) = UNION {Children(d) : d \in Range(walks[i].reads)}
            /\ \A p \in Range(walks[i].evals) :
                /\ p \in Range(sink) <=> Passes(i, p)
                /\ p \in Range(walks[i].reads) <=> (Passes(i, p) /\ is_dir(p))

\* With all four filters set, an entry that both includes match was dropped
\* because the local exclude matches it.
C4_Witness ==
    /\ pc = "done" /\ Len(walks) = 1 /\ walks[1].ok
    /\ builder.paths[1].kind = "PathIncludeExclude"
    /\ builder.include # None /\ builder.exclude # None
    /\ \E p \in Range(walks[1].evals) :
        /\ p[Len(p)] = builder.include
        /\ p[Len(p)] = builder.paths[1].include
        /\ p[Len(p)] # builder.exclude
        /\ p[Len(p)] = builder.paths[1].exclude
        /\ p \notin Range(sink)

\* C5: a single unfiltered declaration on a directory forwards the root and
\* every entry below it exactly once each.
C5_EachEntryOnce ==
    \A i \in Walked :
        ( /\ Len(builder.paths) = 1 /\ walks[i].ok
          /\ builder.paths[i].kind = "Path"
          /\ builder.include = None /\ builder.exclude = None
          /\ is_dir(root(i)) ) =>
            \A p \in Paths :
                Count(sink, p) = IF exists(p) /\ (p = root(i) \/ Below(p, root(i)))
                                 THEN 1 ELSE 0

RECURSIVE Concat(_)
Concat(ss) == IF ss = <<>> THEN <<>> ELSE Head(ss) \o Concat(Tail(ss))
\* The builder that holds declaration i alone, under the same global filters.
Alone(i) == [builder EXCEPT !.paths = <<builder.paths[i]>>]

C7_Idempotent ==
    first.ran =>
        /\ pc # "panicked"
        /\ pc = "done" => Range(sink) = Range(first.sink)

\* The second run met another order of the entries: the sequences differ,
\* the sets do not.
C7_Witness ==
    /\ first.ran /\ pc = "done"
    /\ sink # first.sink
    /\ Range(sink) = Range(first.sink)

\* C8: a walk that reads the failing directory fails, after reading it once;
\* a failed walk is the last one of the call, which has panicked, and the
\* sink holds the paths of the declarations before it and no other.
C8_EnumerationFailureIsFatal ==
    \A i \in Walked :
        /\ Count(walks[i].reads, ioError) <= 1
        /\ ioError \in Range(walks[i].reads) => ~walks[i].ok
        /\ ~walks[i].ok =>
            /\ i = Len(walks)
            /\ pc = "panicked"
            /\ sink = Concat([j \in 1..(i - 1) |-> walks[j].result])

\* The walk of the first of two declarations failed below its root, after
\* it had collected entries; the second declaration was not walked.
C8_Witness ==
    /\ pc = "panicked"
    /\ Len(builder.paths) = 2 /\ Len(walks) = 1
    /\ Len(walks[1].reads) > 1 /\ walks[1].evals # <<>>
    /\ sink = <<>>

\* C9: the walk of a root that exists and is no directory returns the root
\* alone, puts nothing to the filter and reads no directory.
C9_FileRootAlone ==
    \A i \in Walked :
        (Len(builder.paths) = 1 /\ exists(root(i)) /\ ~is_dir(root(i))) =>
            /\ walks[i] = Ok(<<root(i)>>, <<>>, <<>>)
            /\ sink = <<root(i)>>

\* A file root that the filter of its declaration, made of four filters,
\* rejects was walked.
C9_Witness ==
    /\ pc = "done" /\ Len(walks) = 1
    /\ root(1) \in files
    /\ builder.paths[1].kind = "PathIncludeExclude"
    /\ builder.include # None /\ builder.exclude # None
    /\ ~collect_filter(builder.paths[1], builder)[root(1)]
    /\ sink = <<root(1)>>

\* C10: in the output of a walk, no occurrence of a directory entry that
\* passed the filter precedes a path from below that entry.
C10_SubtreeBeforeChild ==
    \A i \in Walked :
        (Len(builder.paths) = 1 /\ walks[i].ok) =>
            \A c \in Range(walks[i].evals) :
                (is_dir(c) /\ Passes(i, c)) =>
                    \A j, k \in 1..Len(sink) :
                        (sink[j] = c /\ Below(sink[k], c)) => k < j

\* What the sink had received when the walk of declaration i began.
Before(i) == Len(Concat([j \in 1..(i - 1) |-> walks[j].result]))

\* C11: of the paths a declaration with an existing root forwards, the root
\* is the first: it stands in the sink where the paths of the declaration
\* begin, and every path from below the root comes after it.
C11_RootFirst ==
    \A i \in Walked :
        (exists(root(i)) /\ walks[i].ok) =>
            /\ Len(sink) > Before(i)
            /\ sink[Before(i) + 1] = root(i)
            /\ \A k \in 1..Len(walks[i].result) :
                    Below(walks[i].result[k], root(i)) =>
                        \E j \in 1..(k - 1) : walks[i].result[j] = root(i)

\* The second of two declarations has a directory root with entries below
\* it: its root follows the paths of the first declaration at once, its
\* descendants follow the root.
C11_Witness ==
    /\ pc = "done" /\ Len(walks) = 2
    /\ walks[1].result # <<>>
    /\ is_dir(root(2)) /\ Len(walks[2].result) > 2
    /\ sink[Before(2) + 1] = root(2)
    /\ Below(sink[Before(2) + 2], root(2))

\* The result of walk i is finite and loop-free: no directory is read twice,
\* every directory read but the first is a child of one read before it, and
\* no entry of the tree is in the result more than twice.
Finite(i) ==
    /\ \A d \in dirs : Count(walks[i].reads, d) <= 1
    /\ \A k \in 2..Len(walks[i].reads) :
            \E j \in 1..(k - 1) : walks[i].reads[j] = parent(walks[i].reads[k])
    /\ Range(walks[i].result) \subseteq dirs \cup files
    /\ Len(walks[i].result) <= 2 * Cardinality(dirs \cup files)

\* C12: on a finite tree walked from parent to child, a call of generate that
\* has begun ends, done or panicked, whatever the declarations and filters,
\* and the result of every walk of it is finite and loop-free.
C12_GenerateTerminates ==
    (pc = "generating") ~>
        (pc \in {"done", "panicked"} /\ \A i \in Walked : Finite(i))

\* A call over the most declarations has ended after walking, for one of
\* them, the deepest chain of directories to its end.
C12_Witness ==
    /\ pc = "done" /\ Len(walks) = MaxPaths
    /\ \E i \in Walked : Len(walks[i].reads) = MaxDepth
    /\ \A i \in Walked : Finite(i)

\* The entries below the root of declaration i that pass the four clauses
\* together with every directory between the root and them.
Kept(i) ==
    {d \in Paths :
        /\ exists(d) /\ Below(d, root(i))
        /\ \A k \in (Len(root(i)) + 1)..Len(d) : Passes(i, SubSeq(d, 1, k))}

\* C13: the walk of a declaration with an existing directory root, when it
\* returns, forwards as a set the root and exactly the entries below it that
\* pass the effective filter together with every directory between the root
\* and them; so an entry an include matches is not forwarded when a
\* directory above it, below the root, is not matched by that include.
C13_EmittedSet ==
    \A i \in Walked :
        (Len(builder.paths) = 1 /\ is_dir(root(i)) /\ walks[i].ok) =>
            /\ Range(sink) = {root(i)} \cup Kept(i)
            /\ \A d \in Paths :
                    ( /\ exists(d) /\ Below(d, root(i))
                      /\ \E k \in (Len(root(i)) + 1)..(Len(d) - 1) :
                            ~Passes(i, SubSeq(d, 1, k)) )
                        => d \notin Range(sink)

\* Under an include, a file the include matches was not forwarded because
\* the directory that holds it, below the root, is not matched; an entry of
\* the root that the include matches was forwarded.
C13_Witness ==
    /\ pc = "done" /\ Len(walks) = 1 /\ walks[1].ok /\ is_dir(root(1))
    /\ \E f \in Matchers :
        /\ f \in {builder.include, builder.paths[1].include}
        /\ \E d \in files :
            /\ Len(d) = Len(root(1)) + 2 /\ Below(d, root(1))
            /\ d[Len(d)] = f /\ Passes(1, d)
            /\ ~Passes(1, parent(d))
            /\ d \notin Range(sink)
        /\ \E e \in Range(sink) : e # root(1) /\ e[Len(e)] = f

\* The step registers decl: it is appended to the declarations, which are
\* otherwise as they were, and both global filters are as they were.
Registers(decl) ==
    /\ builder'.paths = Append(builder.paths, decl)
    /\ builder'.include = builder.include
    /\ builder'.exclude = builder.exclude

\* C14: path, path_include, path_exclude and path_filter each append exactly
\* one declaration, of their own variant, at the end of the sequence and
\* leave the declarations registered before, their order and both global
\* filters as they were; setting the global include or exclude leaves the
\* declarations and the other global filter as they were; and no step changes
\* the builder in another way.
C14_RegistrationFrame ==
    [][ /\ \A p \in Roots :
            path(p) => Registers([path |-> p, include |-> None,
                                  exclude |-> None, kind |-> "Path"])
        /\ \A p \in Roots, f \in Matchers :
            path_include(p, f) => Registers([path |-> p, include |-> f,
                                             exclude |-> None, kind |-> "PathInclude"])
        /\ \A p \in Roots, f \in Matchers :
            path_exclude(p, f) => Registers([path |-> p, include |-> None,
                                             exclude |-> f, kind |-> "PathExclude"])
        /\ \A p \in Roots, i \in Matchers, e \in Matchers :
            path_filter(p, i, e) => Registers([path |-> p, include |-> i,
                                               exclude |-> e,
                                               kind |-> "PathIncludeExclude"])
        /\ \A f \in Matchers :
            include(f) => /\ builder'.include = f
                          /\ builder'.paths = builder.paths
                          /\ builder'.exclude = builder.exclude
        /\ \A f \in Matchers :
            exclude(f) => /\ builder'.exclude = f
                          /\ builder'.paths = builder.paths
                          /\ builder'.include = builder.include
        /\ builder' # builder =>
            \/ /\ Len(builder'.paths) = Len(builder.paths) + 1
               /\ SubSeq(builder'.paths, 1, Len(builder.paths)) = builder.paths
               /\ builder'.include = builder.include
               /\ builder'.exclude = builder.exclude
            \/ /\ builder'.paths = builder.paths
               /\ builder'.exclude = builder.exclude
            \/ /\ builder'.paths = builder.paths
               /\ builder'.include = builder.include
      ]_vars

\* Under a global include and a global exclude, path_filter has registered
\* the last of MaxPaths declarations after declarations of other variants.
C14_Witness ==
    /\ pc = "building"
    /\ builder.include # None /\ builder.exclude # None
    /\ Len(builder.paths) = MaxPaths
    /\ builder.paths[MaxPaths].kind = "PathIncludeExclude"
    /\ \A k \in 1..(MaxPaths - 1) : builder.paths[k].kind # "PathIncludeExclude"
====
